---- MODULE Spec2Model ----
(***************************************************************************)
(* Frc: a fractionally owned pointer.  src/frac.rs keeps the ownership     *)
(* share of one handle as the pair (num, den) read as num / 2^(den-1);     *)
(* src/lib.rs pairs such a share with a raw pointer to a boxed value.      *)
(*                                                                         *)
(* The model keeps the unsigned width of usize as the definition Bits, so  *)
(* that every place where the Rust arithmetic can overflow (checked_add,   *)
(* checked_shl, +, >>=, -) is reached by TLC.  Arithmetic overflow in Rust *)
(* panics when the build has overflow checks and wraps otherwise; the      *)
(* variable overflowChecks fixes the build at Init and both are explored.  *)
(* A panic unwinds: the values owned by the panicking call are dropped and *)
(* the rest of the program (another thread, a catch_unwind caller) goes on.*)
(***************************************************************************)
EXTENDS Integers, FiniteSets, Bags, TLC

\* ------------------------------------------------------------- bounds
\* width in bits of the unsigned integer type of Frac.num / Frac.den
Bits == 4
\* number of Frc values the program holds at the same time
MaxHandles == 3
\* number of Frc::new calls (distinct heap allocations)
MaxItems == 2
\* number of distinct values a Box may hold
MaxValue == 2
\* the den up to which the program goes on splitting an Frc
MaxDen == 6

Items == 1..MaxItems
Values == 1..MaxValue

VARIABLES
    handles,         \* the bag of Frc values the program holds
    heap,            \* item -> [st, val, rel]: the Box behind the pointer
    dropped,         \* item -> some Frc of it went out of scope un-merged
    overflowChecks,  \* the build: TRUE panics on overflow, FALSE wraps
    last             \* the last call and what it returned

vars == <<handles, heap, dropped, overflowChecks, last>>

\* ------------------------------------------------------- usize arithmetic
RECURSIVE Pow2(_)
Pow2(n) == IF n <= 0 THEN 1 ELSE 2 * Pow2(n - 1)

\* usize::MAX
UsizeMax == Pow2(Bits) - 1

\* usize::trailing_zeros: the width itself for 0
RECURSIVE TrailingZeros(_)
TrailingZeros(n) ==
    IF n = 0 THEN Bits
    ELSE IF n % 2 = 1 THEN 0
    ELSE 1 + TrailingZeros(n \div 2)

\* usize::checked_add(1): fails at usize::MAX
CheckedAdd1(n) ==
    IF n = UsizeMax THEN [ok |-> FALSE, v |-> n] ELSE [ok |-> TRUE, v |-> n + 1]

\* usize::checked_shl: fails only when the shift amount is not below the
\* width; the bits shifted out at the top are lost without notice
CheckedShl(n, k) ==
    IF k >= Bits THEN [ok |-> FALSE, v |-> n]
    ELSE [ok |-> TRUE, v |-> (n * Pow2(k)) % Pow2(Bits)]

\* ------------------------------------------------------------ src/frac.rs
\* Frac::new
FracNew == [num |-> 1, den |-> 1]

\* Frac::split that hands out the new Frac with the den of before the split
FracSplit_OldDen(self) ==
    LET d == CheckedAdd1(self.den)
    IN  IF ~d.ok
        THEN [ok |-> FALSE, self |-> self, ret |-> self]
        ELSE [ok |-> TRUE,
              self |-> [self EXCEPT !.den = d.v],
              ret  |-> [num |-> self.num, den |-> self.den]]

\* Frac::split: [ok, self (the receiver afterwards), ret (the new Frac)]
FracSplit(self) ==
    LET d == CheckedAdd1(self.den)
    IN  IF ~d.ok
        THEN [ok |-> FALSE, self |-> self, ret |-> self]
        ELSE [ok |-> TRUE,
              self |-> [self EXCEPT !.den = d.v],
              ret  |-> [num |-> self.num, den |-> d.v]]

\* Frac::merge that adds the aligned numerators and never reduces the sum
FracMerge_NoReduce(self, other, checks) ==
    LET selfIsMin == self.den < other.den
        min_den == IF selfIsMin THEN self ELSE other
        max_den == IF selfIsMin THEN other ELSE self
        shl == CheckedShl(min_den.num, max_den.den - min_den.den)
    IN  IF ~shl.ok THEN [kind |-> "err", self |-> self]
        ELSE [kind |-> "ok",
              self |-> [num |-> (shl.v + max_den.num) % Pow2(Bits), den |-> max_den.den]]

\* Frac::merge that takes the larger den into the receiver before the
\* checked shift, so that a failed merge leaves the receiver changed
FracMerge_Eager(self, other, checks) ==
    LET selfIsMin == self.den < other.den
        min_den == IF selfIsMin THEN self ELSE other
        max_den == IF selfIsMin THEN other ELSE self
        shl == CheckedShl(min_den.num, max_den.den - min_den.den)
        sum == (shl.v + max_den.num) % Pow2(Bits)
        trailing == TrailingZeros(sum)
    IN  IF ~shl.ok THEN [kind |-> "err", self |-> [self EXCEPT !.den = max_den.den]]
        ELSE [kind |-> "ok",
              self |-> [num |-> sum \div Pow2(trailing % Bits),
                        den |-> (max_den.den - trailing) % Pow2(Bits)]]

\* Frac::merge that lowers the den of the receiver, whichever of the two
\* den is the larger
FracMerge_SelfDen(self, other, checks) ==
    LET selfIsMin == self.den < other.den
        min_den == IF selfIsMin THEN self ELSE other
        max_den == IF selfIsMin THEN other ELSE self
        shl == CheckedShl(min_den.num, max_den.den - min_den.den)
        sum == (shl.v + max_den.num) % Pow2(Bits)
        trailing == TrailingZeros(sum)
    IN  IF ~shl.ok THEN [kind |-> "err", self |-> self]
        ELSE [kind |-> "ok",
              self |-> [num |-> sum \div Pow2(trailing % Bits),
                        den |-> (self.den - trailing) % Pow2(Bits)]]

\* Frac::merge: [kind, self (the receiver afterwards)]; kind is "ok", "err"
\* (MergeErr returned) or "panic" (an overflow check of the build fired).
\* min_den / max_den alias self and other, so the shifted numerator is
\* written into the receiver when the receiver has the smaller den.
FracMerge(self, other, checks) ==
    LET selfIsMin == self.den < other.den
        min_den == IF selfIsMin THEN self ELSE other
        max_den == IF selfIsMin THEN other ELSE self
        diff == max_den.den - min_den.den
        shl  == CheckedShl(min_den.num, diff)
        self1 == IF selfIsMin THEN [self EXCEPT !.num = shl.v] ELSE self
        raw  == shl.v + max_den.num
        num0 == raw % Pow2(Bits)
        trailing == TrailingZeros(num0)
        num1 == num0 \div Pow2(trailing % Bits)
        den1 == (max_den.den - trailing) % Pow2(Bits)
    IN  IF ~shl.ok THEN [kind |-> "err", self |-> self]
        ELSE IF checks /\ raw > UsizeMax THEN [kind |-> "panic", self |-> self1]
        ELSE IF checks /\ trailing >= Bits THEN [kind |-> "panic", self |-> self1]
        ELSE IF checks /\ trailing > max_den.den
             THEN [kind |-> "panic", self |-> self1]
        ELSE [kind |-> "ok", self |-> [num |-> num1, den |-> den1]]

\* Frac::is_one that looks at the numerator alone
FracIsOne_NumOnly(self) == self.num = 1

\* Frac::is_one
FracIsOne(self) == self.num = 1 /\ self.den = 1

\* ------------------------------------------------------------- src/lib.rs
\* struct Frc: the pointer and the share (PhantomData carries no state)
Frc(item, frac) == [item |-> item, frac |-> frac]

\* Frc::from_inner
FromInner(ptr) == Frc(ptr, FracNew)

\* the Frc values held
Held == BagToSet(handles)

\* the program holding one Frc more, one Frc less
Gain(bag, f) == bag (+) SetToBag({f})
Lose(bag, f) == bag (-) SetToBag({f})

\* room for one more Frc value
HasRoom == BagCardinality(handles) < MaxHandles

\* the address Box::new returns: a block never handed out before
FreshItem ==
    CHOOSE i \in Items : heap[i].st = "none" /\ \A j \in Items : j < i => heap[j].st # "none"

NoCall == [res |-> "none", val |-> 0]

\* what a call returned: the kind of result ("ok", "err", "overflow",
\* "incompatible", "panic", or "ub" for a read of released storage) and
\* the value it gave back, if any
Call(res, val) == [res |-> res, val |-> val]

Init ==
    /\ handles = EmptyBag
    /\ heap = [i \in Items |-> [st |-> "none", val |-> 0, rel |-> 0]]
    /\ dropped = [i \in Items |-> FALSE]
    /\ overflowChecks \in BOOLEAN
    /\ last = NoCall

\* Frc::new(v): Box::new(v).into(), i.e. From<Box<T>> and from_inner
New(v) ==
    /\ HasRoom
    /\ \E i \in Items : heap[i].st = "none"
    /\ LET i == FreshItem
       IN  /\ handles' = Gain(handles, FromInner(i))
           /\ heap' = [heap EXCEPT ![i] = [st |-> "live", val |-> v, rel |-> 0]]
           /\ last' = Call("ok", 0)
    /\ UNCHANGED <<dropped, overflowChecks>>

\* Frc::split: a second Frc on the same item; panics when Frac::split fails.
\* The program stops splitting at MaxDen; a den at usize::MAX (only a
\* wrapped subtraction gives one) is still tried, and fails.
Split(a) ==
    /\ a \in Held
    /\ a.frac.den < MaxDen \/ a.frac.den = UsizeMax
    /\ LET r == FracSplit(a.frac)
       IN  IF r.ok
           THEN /\ HasRoom
                /\ handles' = Gain(Gain(Lose(handles, a), Frc(a.item, r.self)),
                                   Frc(a.item, r.ret))
                /\ last' = Call("ok", 0)
           ELSE /\ handles' = Gain(Lose(handles, a), Frc(a.item, r.self))
                /\ last' = Call("panic", 0)
    /\ UNCHANGED <<heap, dropped, overflowChecks>>

\* Frc::merge_unchecked: [kind, self]; kind "ok", "overflow" (MergeErr of
\* kind FractionOverflow, carrying other) or "panic"
MergeUnchecked(self, other, checks) ==
    LET r == FracMerge(self.frac, other.frac, checks)
    IN  [kind |-> IF r.kind = "err" THEN "overflow" ELSE r.kind,
         self |-> Frc(self.item, r.self)]

\* two distinct Frc values held by the program
TwoHeld(a, b) ==
    /\ a \in Held /\ b \in Held
    /\ a = b => CopiesIn(a, handles) >= 2

\* Frc::try_merge that goes to merge_unchecked without comparing the items
TryMerge_NoCheck(a, b) ==
    /\ TwoHeld(a, b)
    /\ LET r == MergeUnchecked(a, b, overflowChecks)
       IN  /\ handles' =
                 IF r.kind = "overflow"
                 THEN Gain(Lose(handles, a), r.self)
                 ELSE Gain(Lose(Lose(handles, a), b), r.self)
           /\ dropped' = [dropped EXCEPT ![a.item] = @ \/ r.kind = "panic"]
           /\ last' = Call(r.kind, 0)
    /\ UNCHANGED <<heap, overflowChecks>>

\* Frc::try_merge
TryMerge(a, b) ==
    /\ TwoHeld(a, b)
    /\ IF a.item = b.item
       THEN LET r == MergeUnchecked(a, b, overflowChecks)
            IN  /\ handles' =
                      IF r.kind = "overflow"
                      THEN Gain(Lose(handles, a), r.self)
                      ELSE Gain(Lose(Lose(handles, a), b), r.self)
                /\ dropped' = [dropped EXCEPT ![a.item] = @ \/ r.kind = "panic"]
                /\ last' = Call(r.kind, 0)
       ELSE /\ last' = Call("incompatible", 0)
            /\ UNCHANGED <<handles, dropped>>
    /\ UNCHANGED <<heap, overflowChecks>>

\* Frc::merge: the assert! and every error of merge_unchecked panic, and
\* the unwinding drops other
Merge(a, b) ==
    /\ TwoHeld(a, b)
    /\ IF a.item = b.item
       THEN LET r == MergeUnchecked(a, b, overflowChecks)
            IN  /\ handles' = Gain(Lose(Lose(handles, a), b), r.self)
                /\ dropped' = [dropped EXCEPT ![a.item] = @ \/ r.kind # "ok"]
                /\ last' = Call(IF r.kind = "ok" THEN "ok" ELSE "panic", 0)
       ELSE /\ handles' = Lose(handles, b)
            /\ dropped' = [dropped EXCEPT ![b.item] = TRUE]
            /\ last' = Call("panic", 0)
    /\ UNCHANGED <<heap, overflowChecks>>

\* Frc::unwrap_unchecked: *Box::from_raw(self.item): the block is released
\* (once more, if it was released before) and its value moved out
UnwrapUnchecked(self) ==
    [heap EXCEPT ![self.item] =
        [st |-> "freed", val |-> 0, rel |-> IF @.rel >= 2 THEN 2 ELSE @.rel + 1]]

\* what a read through the pointer gives: the value of a live block,
\* anything at all for a block that was released
Pointee(self) ==
    IF heap[self.item].st = "live" THEN {heap[self.item].val} ELSE Values

\* Frc::try_unwrap
TryUnwrap(a) ==
    /\ a \in Held
    /\ IF FracIsOne(a.frac)
       THEN /\ heap' = UnwrapUnchecked(a)
            /\ handles' = Lose(handles, a)
            /\ \E v \in Pointee(a) : last' = Call("ok", v)
       ELSE /\ last' = Call("err", 0)
            /\ UNCHANGED <<handles, heap>>
    /\ UNCHANGED <<dropped, overflowChecks>>

\* Frc::unwrap: try_unwrap, and a panic that drops the Frc on Err
Unwrap(a) ==
    /\ a \in Held
    /\ IF FracIsOne(a.frac)
       THEN /\ heap' = UnwrapUnchecked(a)
            /\ \E v \in Pointee(a) : last' = Call("ok", v)
            /\ UNCHANGED dropped
       ELSE /\ last' = Call("panic", 0)
            /\ dropped' = [dropped EXCEPT ![a.item] = TRUE]
            /\ UNCHANGED heap
    /\ handles' = Lose(handles, a)
    /\ UNCHANGED overflowChecks

\* an Frc going out of scope: Frc has no Drop impl, the block is not touched
Drop(a) ==
    /\ a \in Held
    /\ handles' = Lose(handles, a)
    /\ dropped' = [dropped EXCEPT ![a.item] = TRUE]
    /\ last' = Call("ok", 0)
    /\ UNCHANGED <<heap, overflowChecks>>

\* Deref::deref: a read through the pointer
Deref(a) ==
    /\ a \in Held
    /\ \E v \in Pointee(a) :
          last' = Call(IF heap[a.item].st = "live" THEN "ok" ELSE "ub", v)
    /\ UNCHANGED <<handles, heap, dropped, overflowChecks>>

\* Frc::new of a program that makes one allocation only
NewFirst(v) == New(v) /\ FreshItem = 1

\* a program with one allocation, in either build
Next ==
    \/ \E v \in Values : NewFirst(v)
    \/ \E a \in Held : Split(a)
    \/ \E a, b \in Held : TryMerge(a, b)
    \/ \E a, b \in Held : Merge(a, b)
    \/ \E a \in Held : TryUnwrap(a)
    \/ \E a \in Held : Unwrap(a)
    \/ \E a \in Held : Drop(a)
    \/ \E a \in Held : Deref(a)

Spec == Init /\ [][Next]_vars

\* a program with up to MaxItems allocations
NextTwo ==
    \/ \E v \in Values : New(v)
    \/ \E a \in Held : Split(a)
    \/ \E a, b \in Held : TryMerge(a, b)
    \/ \E a, b \in Held : Merge(a, b)
    \/ \E a \in Held : TryUnwrap(a)
    \/ \E a \in Held : Unwrap(a)
    \/ \E a \in Held : Drop(a)
    \/ \E a \in Held : Deref(a)

\* ... in the build without overflow checks (the default release profile)
InitTwo == Init /\ overflowChecks = FALSE

SpecTwo == InitTwo /\ [][NextTwo]_vars

\* ------------------------------------------------------------- the claims
\* the share of f as a numerator over the common denominator 2^(UsizeMax-1):
\* num / 2^(den-1) = num * 2^(UsizeMax-den) / 2^(UsizeMax-1), exact
ShareNum(f) == f.num * Pow2(UsizeMax - f.den)

\* the whole share, 1, over the same denominator
One == Pow2(UsizeMax - 1)

\* the Frc values held on the block i
HeldOn(i) == {a \in Held : a.item = i}

RECURSIVE SumShares(_, _)
SumShares(bag, S) ==
    IF S = {} THEN 0
    ELSE LET a == CHOOSE x \in S : TRUE
         IN  CopiesIn(a, bag) * ShareNum(a.frac) + SumShares(bag, S \ {a})

\* the sum of the shares of all the Frc values held on the block i
ShareSum(i) == SumShares(handles, HeldOn(i))

\* a is the only Frc left on its block and no Frc of the block was let go:
\* every Frc ever made on the block has been merged into a
AllMergedInto(a) ==
    /\ ~dropped[a.item]
    /\ HeldOn(a.item) = {a}
    /\ CopiesIn(a, handles) = 1

\* C1: on every block that is still allocated and of which no Frc was
\* dropped or unwrapped, the shares of the Frc values held sum to exactly 1.
C1_Conservation ==
    \A i \in Items :
        (heap[i].st = "live" /\ ~dropped[i]) => ShareSum(i) = One

\* C2: a block is released at most once, and only by a try_unwrap or unwrap
\* that returns the value: the release count goes from 0 to 1 in such a
\* step and never changes otherwise.
C2_NoDoubleRelease ==
    [][\A i \in Items :
          heap'[i].rel # heap[i].rel =>
              /\ heap[i].rel = 0 /\ heap'[i].rel = 1
              /\ heap[i].st = "live"
              /\ \E a \in Held : a.item = i /\ (TryUnwrap(a) \/ Unwrap(a))
              /\ last'.res = "ok"]_vars

\* C3: no Frc is held on a released block, so no read through an Frc ever
\* reads released storage.
C3_NoUseAfterRelease ==
    /\ \A a \in Held : heap[a.item].st = "live"
    /\ last.res # "ub"

\* C4: try_unwrap returns Ok exactly when every Frc ever made on the block
\* has been merged into the receiver.
C4_UnwrapIffAllMerged ==
    [][\A a \in Held :
          TryUnwrap(a) => (last'.res = "ok" <=> AllMergedInto(a))]_vars

\* the two Frc values there are on block i right after the split of the
\* Frc that Frc::new made
JustSplit(i, a, b) ==
    /\ a = Frc(i, FracSplit(FracNew).self)
    /\ b = Frc(i, FracSplit(FracNew).ret)
    /\ HeldOn(i) = {a, b}
    /\ CopiesIn(a, handles) + CopiesIn(b, handles) = IF a = b THEN 4 ELSE 2
    /\ ~dropped[i]

\* the state of block i after h = Frc::new(v), and again after
\* h2 = h.split() followed by the merge of h and h2: a is the Frc of the
\* block, as from_inner makes it, and nothing of the block was dropped
SoleOwner(a) == a = FromInner(a.item) /\ AllMergedInto(a)

\* C5: new(v) puts v behind the pointer of a whole Frc and nothing but the
\* release changes the value; merging the two Frc values of the split of a
\* new Frc, either into the other, leaves the receiver whole as new made
\* it; and unwrap (or try_unwrap) of the Frc that new made, or that this
\* merge restored, returns v and releases the block.
C5_RoundTrip ==
    [][/\ \A v \in Values :
             New(v) => /\ heap'[FreshItem].val = v
                       /\ handles' = Gain(handles, FromInner(FreshItem))
       /\ \A i \in Items :
             (heap[i].st = "live" /\ heap'[i].st = "live") => heap'[i].val = heap[i].val
       /\ \A a, b \in Held :
             ((JustSplit(a.item, a, b) \/ JustSplit(a.item, b, a))
                 /\ (Merge(a, b) \/ TryMerge(a, b)))
                 => /\ last'.res = "ok"
                    /\ handles' = Gain(Lose(Lose(handles, a), b), FromInner(a.item))
       /\ \A a \in Held :
             (SoleOwner(a) /\ (Unwrap(a) \/ TryUnwrap(a)))
                 => /\ last'.res = "ok" /\ last'.val = heap[a.item].val
                    /\ heap'[a.item].st = "freed"]_vars

C5_Witness ==
    /\ last.res = "ok" /\ last.val = MaxValue
    /\ \E i \in Items : heap[i].st = "freed" /\ ~dropped[i]
    /\ Held = {}

\* C6: try_merge of two Frc values on different blocks returns the
\* IncompatibleFrcs error and changes neither Frc nor any block.
C6_UnrelatedMergeRejected ==
    [][\A a, b \in Held :
          (a.item # b.item /\ TryMerge(a, b))
              => /\ last'.res = "incompatible"
                 /\ handles' = handles
                 /\ heap' = heap]_vars

C6_Witness ==
    /\ last.res = "incompatible"
    /\ \E a \in Held : ~FracIsOne(a.frac)
    /\ \A i \in Items : heap[i].st = "live"

\* C7: try_unwrap of an Frc whose share is not 1 returns Err, leaves every
\* Frc held (the receiver among them) and every block as it was, so that
\* whatever could be read through an Frc before can be read after.
C7_PrematureUnwrapRejected ==
    [][\A a \in Held :
          (ShareNum(a.frac) # One /\ TryUnwrap(a))
              => /\ last'.res = "err"
                 /\ handles' = handles
                 /\ heap' = heap
                 /\ \A b \in BagToSet(handles') :
                       heap[b.item].st = "live" => heap'[b.item].st = "live"]_vars

C7_Witness ==
    /\ last.res = "err"
    /\ BagCardinality(handles) >= 2
    /\ \A a \in Held : heap[a.item].st = "live"

\* the numerators of a and b brought to the larger den, as integers
AlignedMin(a, b) ==
    IF a.den < b.den THEN a.num * Pow2(b.den - a.den) ELSE b.num * Pow2(a.den - b.den)
AlignedMax(a, b) == IF a.den < b.den THEN b.num ELSE a.num

\* C8: try_merge returns the overflow error whenever the shifted numerator
\* or the sum of the aligned numerators does not fit the integer width.
C8_OverflowDetected ==
    [][\A a, b \in Held :
          (/\ a.item = b.item
           /\ TryMerge(a, b)
           /\ \/ AlignedMin(a.frac, b.frac) > UsizeMax
              \/ AlignedMin(a.frac, b.frac) + AlignedMax(a.frac, b.frac) > UsizeMax)
              => last'.res = "overflow"]_vars

\* C9: a try_merge that returns the overflow error leaves every Frc held
\* (the receiver and the argument among them), every block and the drop
\* history as they were.
C9_OverflowSideEffectFree ==
    [][\A a, b \in Held :
          (TryMerge(a, b) /\ last'.res = "overflow")
              => /\ handles' = handles
                 /\ heap' = heap
                 /\ dropped' = dropped]_vars

C9_Witness ==
    /\ last.res = "overflow"
    /\ \E a, b \in Held : a.item = b.item /\ a.frac.den + Bits <= b.frac.den
    /\ \A a \in Held : a.frac.num % 2 = 1 /\ heap[a.item].st = "live"

\* C10: a merge of two Frc values of one block with different den, whose
\* aligned numerators fit the integer width, succeeds and leaves the
\* receiver with exactly the sum of the two shares.
C10_MergeAcrossDepths ==
    [][\A a, b \in Held :
          (/\ a.item = b.item
           /\ a.frac.den # b.frac.den
           /\ AlignedMin(a.frac, b.frac) <= UsizeMax
           /\ (Merge(a, b) \/ TryMerge(a, b)))
              => /\ last'.res = "ok"
                 /\ \E c \in BagToSet(handles') :
                       /\ c.item = a.item
                       /\ ShareNum(c.frac) = ShareNum(a.frac) + ShareNum(b.frac)
                       /\ handles' = Gain(Lose(Lose(handles, a), b), c)]_vars

\* C11: a split that succeeds leaves the receiver with its den raised by
\* exactly 1 and its num as it was, returns an Frc of the same item with
\* that same num and den, each of the two denoting exactly half of what
\* the receiver denoted, and touches no block; a split fails (panics) only
\* when den is at usize::MAX, and then every Frc held is as it was.
C11_SplitSemantics ==
    [][\A a \in Held :
          Split(a) =>
              /\ heap' = heap
              /\ IF a.frac.den = UsizeMax
                 THEN last'.res = "panic" /\ handles' = handles
                 ELSE LET h == Frc(a.item, [num |-> a.frac.num, den |-> a.frac.den + 1])
                      IN  /\ last'.res = "ok"
                          /\ handles' = Gain(Gain(Lose(handles, a), h), h)
                          /\ 2 * ShareNum(h.frac) = ShareNum(a.frac)]_vars

C11_Witness ==
    /\ last.res = "ok"
    /\ CopiesIn(Frc(1, [num |-> 3, den |-> 4]), handles) = 2
    /\ CopiesIn(Frc(1, [num |-> 1, den |-> 3]), handles) = 1
    /\ ~dropped[1]

\* C12: the Frc that new makes has an odd num, and every merge or try_merge
\* that succeeds leaves its receiver with an odd num (split hands the num
\* on as it is, C11).
C12_OddNumerator ==
    [][/\ \A v \in Values :
             New(v) => \A c \in BagToSet(handles') : c \in Held \/ c.frac.num % 2 = 1
       /\ \A a, b \in Held :
             (a.item = b.item /\ (Merge(a, b) \/ TryMerge(a, b)) /\ last'.res = "ok")
                 => \E c \in BagToSet(handles') :
                       /\ c.item = a.item
                       /\ c.frac.num % 2 = 1
                       /\ handles' = Gain(Lose(Lose(handles, a), b), c)]_vars

\* C13: every Frc held denotes a share in (0, 1]: num is at least 1, den is
\* at least 1 and num is at most 2^(den-1).
C13_RangeInvariant ==
    \A a \in Held :
        /\ a.frac.num >= 1
        /\ a.frac.den >= 1
        /\ a.frac.num <= Pow2(a.frac.den - 1)

\* C14: the Frac that Frac::new makes is whole, and is_one holds of the
\* share of an Frc held exactly when that share denotes the rational 1.
C14_WholenessExact ==
    /\ FracIsOne(FracNew)
    /\ \A a \in Held : FracIsOne(a.frac) <=> ShareNum(a.frac) = One

\* C15: merge panics exactly when try_merge of the same two Frc values
\* would return an error (incompatible or overflow), and otherwise does
\* what try_merge does; unwrap panics exactly when try_unwrap of the same
\* Frc would return Err, and otherwise does what try_unwrap does (same
\* value returned, block released).
C15_NonTryRefinesTry ==
    [][/\ \A a, b \in Held :
             Merge(a, b) =>
                 /\ last'.res = "panic" <=>
                        ENABLED (TryMerge(a, b) /\ last'.res \in {"incompatible", "overflow"})
                 /\ last'.res # "panic" => TryMerge(a, b)
       /\ \A a \in Held :
             Unwrap(a) =>
                 /\ last'.res = "panic" <=> ENABLED (TryUnwrap(a) /\ last'.res = "err")
                 /\ last'.res # "panic" => TryUnwrap(a)]_vars

\* C16: a drop touches no block and no other Frc; and once an Frc of a
\* block went out of scope un-merged, no Frc held on that block is whole
\* and the block is never released (nor changed in any other way).
C16_DropSemantics ==
    [][/\ \A a \in Held :
             Drop(a) => heap' = heap /\ handles' = Lose(handles, a)
       /\ \A i \in Items :
             /\ dropped'[i] =>
                   \A c \in BagToSet(handles') : c.item = i => ~FracIsOne(c.frac)
             /\ dropped[i] => heap'[i] = heap[i]]_vars

\* C17: Frc is Send and every operation takes its Frc values by &mut or by
\* value, so a concurrent run is an interleaving of whole operations, each
\* on Frc values one thread holds.  In every such step: split leaves every
\* Frc but its receiver, and merge every Frc but its two, as it was, and
\* neither touches a block; the shares on a block of which nothing was
\* dropped still sum to 1 afterwards if they did before; and a try_unwrap
\* or unwrap that releases a block leaves no Frc held on it.
C17_DisjointHandles ==
    [][/\ \A a \in Held :
             Split(a) => heap' = heap /\ Lose(handles, a) \sqsubseteq handles'
       /\ \A a, b \in Held :
             (Merge(a, b) \/ TryMerge(a, b))
                 => heap' = heap /\ Lose(Lose(handles, a), b) \sqsubseteq handles'
       /\ \A i \in Items :
             (/\ heap[i].st = "live" /\ ~dropped[i] /\ ShareSum(i) = One
              /\ heap'[i].st = "live" /\ ~dropped'[i])
                 => ShareSum(i)' = One
       /\ \A a \in Held :
             ((TryUnwrap(a) \/ Unwrap(a)) /\ last'.res = "ok")
                 => \A c \in BagToSet(handles') : c.item # a.item]_vars

\* C18: a.try_merge(b) succeeds exactly when b.merge(a) would, and when it
\* does the receiver ends with the (num, den) that b would have ended with
\* as the receiver, equal den included.
C18_MergeCommutes ==
    [][\A a, b \in Held :
          (a.item = b.item /\ (TryMerge(a, b) \/ Merge(a, b)))
              => LET r == MergeUnchecked(b, a, overflowChecks)
                 IN  /\ last'.res = "ok" <=> r.kind = "ok"
                     /\ last'.res = "ok" =>
                           handles' = Gain(Lose(Lose(handles, a), b), r.self)]_vars

C18_Witness ==
    /\ last.res = "ok"
    /\ CopiesIn(Frc(1, [num |-> 5, den |-> 4]), handles) = 1
    /\ CopiesIn(Frc(1, [num |-> 3, den |-> 4]), handles) = 1
    /\ BagCardinality(handles) = 2
    /\ ~dropped[1]

\* C19: for the share s of every Frc held that can be split, merging the
\* two Frac values of the split of s either gives back exactly s or
\* returns the overflow error; it neither succeeds with another share nor
\* panics.
C19_SplitMergeInverse ==
    \A a \in Held :
        LET s == FracSplit(a.frac)
            r == FracMerge(s.self, s.ret, overflowChecks)
        IN  s.ok => \/ r.kind = "err"
                    \/ r.kind = "ok" /\ r.self = a.frac
====
